---- MODULE Spec2Model ----
(***************************************************************************)
(* PhotoPin domain logic (photopin-api logic module): users, maps, the     *)
(* collections embedded in a map, and pins, kept in a document store.      *)
(* Every logic operation is one action; each action records the call and   *)
(* its outcome in lastOp (and what it returned in lastRet).                *)
(***************************************************************************)
EXTENDS Integers, Sequences, FiniteSets, TLC

\* ---------------------------------------------------------------- bounds
\* Collections one map holds, pin ids the store hands out, and documents
\* (users, maps, collections, pins) one run creates in all.
MaxCols == 3
MaxPins == 2
MaxDocs == 5

\* The ids callers name: user ids (registered or not), map ids, pin ids.
UserIds == {1, 2}
MapIds == {1, 2}
PinIds == 1..MaxPins

Emails == {"e1", "e2"}
Titles == {"a", "b"}

\* A property that was not given (JavaScript undefined).
Undefined == "undefined"

\* The argument objects the operations are called with.
MapData == { [title |-> "m2", description |-> "", coverImage |-> "c2"] }

UserData == { [email |-> e, name |-> Undefined] : e \in Emails }

NewPinData ==
  { [title |-> "p1", description |-> "x", urlImage |-> "x", bestTimeOfYear |-> "x",
     bestTimeOfDay |-> "x", photographyTips |-> "x", travelInformation |-> "x",
     coordinates |-> <<"41", "2">>] }

PinData ==
  { [title |-> "p2", description |-> Undefined, urlImage |-> "y",
     bestTimeOfYear |-> Undefined, bestTimeOfDay |-> "y", photographyTips |-> Undefined,
     travelInformation |-> "y", coordinates |-> c] : c \in {<<"40", "3">>, << >>} }

\* A pin object that carries no coordinates property.
NoCoordinates ==
  [title |-> "p1", description |-> "x", urlImage |-> "x", bestTimeOfYear |-> "x",
   bestTimeOfDay |-> "x", photographyTips |-> "x", travelInformation |-> "x",
   coordinates |-> << >>]

\* ----------------------------------------------------------------- state
VARIABLES
  users,       \* User documents, by id
  maps,        \* PMap documents, by id, each embedding its collections
  pins,        \* Pin documents, by id
  nextUserId,  \* ids the store hands out are never reused
  nextMapId,
  nextPinId,
  lastOp,      \* the last call: operation and outcome
  lastRet      \* <<value>> returned by the last call when it returns a document

vars == <<users, maps, pins, nextUserId, nextMapId, nextPinId, lastOp, lastRet>>

\* ------------------------------------------------------------- helpers
RECURSIVE SumLen(_, _)
SumLen(ms, ids) ==
  IF ids = {} THEN 0
  ELSE LET m == CHOOSE x \in ids : TRUE
       IN Len(ms[m].collections) + SumLen(ms, ids \ {m})

\* Documents created so far: the ids handed out and the collections stored.
Docs ==
  (nextUserId - 1) + (nextMapId - 1) + (nextPinId - 1) + SumLen(maps, DOMAIN maps)

\* Array.prototype.findIndex on collection titles: 0-based, -1 when absent.
RECURSIVE FindFrom(_, _, _)
FindFrom(cols, title, i) ==
  IF i > Len(cols) THEN -1
  ELSE IF cols[i].title = title THEN i - 1
  ELSE FindFrom(cols, title, i + 1)

FindIndex(cols, title) == FindFrom(cols, title, 1)

\* collections.splice(colIndex, 1)
Splice(cols, colIndex) ==
  [k \in 1..(Len(cols) - 1) |-> IF k <= colIndex THEN cols[k] ELSE cols[k + 1]]

\* Restriction of a store collection to the documents with ids in keep.
Restrict(docs, keep) == [id \in keep |-> docs[id]]

\* Faulty variant: the ownership test accepts every requester.
AuthorEqualsAnyone(doc, userId) == TRUE

\* map.author.equals(userId)
AuthorEquals(doc, userId) == doc.author = userId

\* bcrypt.hash(password, 10)
Hash(password) == <<"hash", password>>

\* The unique index on User.email: some other stored user holds this email.
EmailTaken(email, exceptId) ==
  \E id \in DOMAIN users : id # exceptId /\ users[id].email = email

Op(op, result) == [op |-> op, result |-> result]

\* ------------------------------------------------------------------ Init
\* The store outlives the logic module and no logic operation sets isPublic:
\* the store starts holding one user and that user's public map (removeUser
\* of that user empties it).
Init ==
  /\ users = (1 :> [name |-> "n1", surname |-> "s1", email |-> "e1",
                    password |-> Hash("pw")])
  /\ maps = (1 :> [author |-> 1, title |-> "m1", description |-> "d1",
                   coverImage |-> "c1", isPublic |-> TRUE, collections |-> << >>])
  /\ nextUserId = 2
  /\ nextMapId = 2
  /\ pins = << >>
  /\ nextPinId = 1
  /\ lastOp = Op("none", "ok")
  /\ lastRet = << >>

\* Faulty variant: the lookup by email never finds a user.
FindByEmailNone(email) == {}

\* ------------------------------------------------------- user operations
\* User.findOne({ email })
FindByEmail(email) == {id \in DOMAIN users : users[id].email = email}

registerUser(email) ==
  /\ lastRet' = << >>
  /\ UNCHANGED <<maps, pins, nextMapId, nextPinId>>
  /\ IF FindByEmail(email) # {}
     THEN /\ lastOp' = Op("registerUser", "LogicError")
          /\ UNCHANGED <<users, nextUserId>>
     ELSE /\ nextUserId \in UserIds /\ Docs < MaxDocs
          /\ IF EmailTaken(email, nextUserId)
             THEN /\ lastOp' = Op("registerUser", "StoreError")
                  /\ UNCHANGED <<users, nextUserId>>
             ELSE /\ users' = (nextUserId :> [name |-> "n1", surname |-> "s1",
                                              email |-> email, password |-> Hash("pw")])
                                @@ users
                  /\ nextUserId' = nextUserId + 1
                  /\ lastOp' = Op("registerUser", "ok")

\* $set: data
SetUser(user, data) ==
  [user EXCEPT !.email = IF data.email = Undefined THEN @ ELSE data.email,
               !.name = IF data.name = Undefined THEN @ ELSE data.name]

updateUser(userId, data) ==
  /\ lastRet' = << >>
  /\ UNCHANGED <<maps, pins, nextUserId, nextMapId, nextPinId>>
  /\ IF userId \notin DOMAIN users
     THEN /\ lastOp' = Op("updateUser", "LogicError")
          /\ UNCHANGED users
     ELSE IF data.email # Undefined /\ EmailTaken(data.email, userId)
     THEN /\ lastOp' = Op("updateUser", "LogicError")
          /\ UNCHANGED users
     ELSE /\ users' = [users EXCEPT ![userId] = SetUser(@, data)]
          /\ lastOp' = Op("updateUser", "ok")

\* Faulty variant: the user's pins are left in the store.
DeletePinsByAuthorNone(userId) == pins

\* Pin.deleteMany({ author: userId })
DeletePinsByAuthor(userId) ==
  Restrict(pins, {p \in DOMAIN pins : pins[p].author # userId})

\* PMap.deleteMany({ author: userId })
DeleteMapsByAuthor(userId) ==
  Restrict(maps, {m \in DOMAIN maps : maps[m].author # userId})

removeUser(userId) ==
  /\ lastRet' = << >>
  /\ UNCHANGED <<nextUserId, nextMapId, nextPinId>>
  /\ IF userId \notin DOMAIN users
     THEN /\ lastOp' = Op("removeUser", "LogicError")
          /\ UNCHANGED <<users, maps, pins>>
     ELSE /\ pins' = DeletePinsByAuthor(userId)
          /\ maps' = DeleteMapsByAuthor(userId)
          /\ users' = Restrict(users, DOMAIN users \ {userId})
          /\ lastOp' = Op("removeUser", "ok")

\* -------------------------------------------------------- map operations
\* PMap.findById(mapId).populate("collections.pins").lean(), then the id
\* rewriting of the handler: every referenced pin that is still stored is
\* materialised with its id.
PopulatePin(pinId) ==
  [id |-> pinId, mapId |-> pins[pinId].mapId, author |-> pins[pinId].author,
   title |-> pins[pinId].title, coordinates |-> pins[pinId].coordinates]

RECURSIVE PopulatePins(_)
PopulatePins(refs) ==
  IF refs = << >> THEN << >>
  ELSE IF Head(refs) \in DOMAIN pins
       THEN <<PopulatePin(Head(refs))>> \o PopulatePins(Tail(refs))
       ELSE PopulatePins(Tail(refs))

Populate(mapId) ==
  [id |-> mapId, author |-> maps[mapId].author, title |-> maps[mapId].title,
   isPublic |-> maps[mapId].isPublic,
   collections |-> [k \in 1..Len(maps[mapId].collections) |->
                      [title |-> maps[mapId].collections[k].title,
                       pins |-> PopulatePins(maps[mapId].collections[k].pins)]]]

\* Faulty variant: isPublic is ignored.
HiddenFromOthers(map, userId) == ~AuthorEquals(map, userId)

\* !map.isPublic && !map.author.equals(userId)
Hidden(map, userId) == ~map.isPublic /\ ~AuthorEquals(map, userId)

\* What the call yields in the current store: its outcome and the document.
RetrieveUserMap(userId, mapId) ==
  IF mapId \notin DOMAIN maps THEN [result |-> "LogicError", ret |-> << >>]
  ELSE IF Hidden(maps[mapId], userId) THEN [result |-> "LogicError", ret |-> << >>]
  ELSE [result |-> "ok", ret |-> <<Populate(mapId)>>]

retrieveUserMap(userId, mapId) ==
  /\ UNCHANGED <<users, maps, pins, nextUserId, nextMapId, nextPinId>>
  /\ lastOp' = Op("retrieveUserMap", RetrieveUserMap(userId, mapId).result)
  /\ lastRet' = RetrieveUserMap(userId, mapId).ret

createMap(userId, title, description, coverImage) ==
  /\ nextMapId \in MapIds /\ Docs < MaxDocs
  /\ maps' = (nextMapId :> [author |-> userId, title |-> title,
                            description |-> description, coverImage |-> coverImage,
                            isPublic |-> FALSE, collections |-> << >>]) @@ maps
  /\ nextMapId' = nextMapId + 1
  /\ lastOp' = Op("createMap", "ok")
  /\ lastRet' = << >>
  /\ UNCHANGED <<users, pins, nextUserId, nextPinId>>

\* if (data.x) map.x = data.x : an empty string is falsy and changes nothing
SetMap(map, data) ==
  [map EXCEPT !.title = IF data.title # "" THEN data.title ELSE @,
              !.description = IF data.description # "" THEN data.description ELSE @,
              !.coverImage = IF data.coverImage # "" THEN data.coverImage ELSE @]

updateMap(userId, mapId, data) ==
  /\ lastRet' = << >>
  /\ UNCHANGED <<users, pins, nextUserId, nextMapId, nextPinId>>
  /\ IF mapId \notin DOMAIN maps
     THEN /\ lastOp' = Op("updateMap", "LogicError")
          /\ UNCHANGED maps
     ELSE IF ~AuthorEquals(maps[mapId], userId)
     THEN /\ lastOp' = Op("updateMap", "LogicError")
          /\ UNCHANGED maps
     ELSE /\ maps' = [maps EXCEPT ![mapId] = SetMap(@, data)]
          /\ lastOp' = Op("updateMap", "ok")

\* Faulty variant: the map's pins are left in the store.
DeletePinsOfMapNone(mapId) == pins

\* Pin.deleteMany({ mapId })
DeletePinsOfMap(mapId) ==
  Restrict(pins, {p \in DOMAIN pins : pins[p].mapId # mapId})

removeMap(userId, mapId) ==
  /\ lastRet' = << >>
  /\ UNCHANGED <<users, nextUserId, nextMapId, nextPinId>>
  /\ IF mapId \notin DOMAIN maps
     THEN /\ lastOp' = Op("removeMap", "LogicError")
          /\ UNCHANGED <<maps, pins>>
     ELSE IF ~AuthorEquals(maps[mapId], userId)
     THEN /\ lastOp' = Op("removeMap", "LogicError")
          /\ UNCHANGED <<maps, pins>>
     ELSE /\ pins' = DeletePinsOfMap(mapId)
          /\ maps' = Restrict(maps, DOMAIN maps \ {mapId})
          /\ lastOp' = Op("removeMap", "ok")

\* ------------------------------------------------- collection operations
createCollection(userId, mapId, collectionTitle) ==
  /\ lastRet' = << >>
  /\ UNCHANGED <<users, pins, nextUserId, nextMapId, nextPinId>>
  /\ IF mapId \notin DOMAIN maps
     THEN /\ lastOp' = Op("createCollection", "LogicError")
          /\ UNCHANGED maps
     ELSE IF ~AuthorEquals(maps[mapId], userId)
     THEN /\ lastOp' = Op("createCollection", "LogicError")
          /\ UNCHANGED maps
     ELSE /\ Len(maps[mapId].collections) < MaxCols /\ Docs < MaxDocs
          /\ maps' = [maps EXCEPT ![mapId].collections =
                        Append(@, [title |-> collectionTitle, pins |-> << >>])]
          /\ lastOp' = Op("createCollection", "ok")

\* Faulty variant: a match at index 0 is rejected too.
NewTitleExistsAnywhere(cols, newTitle) == FindIndex(cols, newTitle) >= 0

\* if (colIndexNewTitle > 0) throw
NewTitleExists(cols, newTitle) == FindIndex(cols, newTitle) > 0

updateCollection(userId, mapId, collectionTitle, newTitle) ==
  /\ lastRet' = << >>
  /\ UNCHANGED <<users, pins, nextUserId, nextMapId, nextPinId>>
  /\ IF mapId \notin DOMAIN maps
     THEN /\ lastOp' = Op("updateCollection", "LogicError")
          /\ UNCHANGED maps
     ELSE IF ~AuthorEquals(maps[mapId], userId)
     THEN /\ lastOp' = Op("updateCollection", "LogicError")
          /\ UNCHANGED maps
     ELSE LET cols == maps[mapId].collections
              colIndex == FindIndex(cols, collectionTitle)
          IN IF NewTitleExists(cols, newTitle)
             THEN /\ lastOp' = Op("updateCollection", "LogicError")
                  /\ UNCHANGED maps
             ELSE IF colIndex = -1
             \* collections[-1] is undefined: the TypeError is caught in the try
             THEN /\ lastOp' = Op("updateCollection", "LogicError")
                  /\ UNCHANGED maps
             ELSE /\ maps' = [maps EXCEPT
                                ![mapId].collections[colIndex + 1].title = newTitle]
                  /\ lastOp' = Op("updateCollection", "ok")

\* Faulty variant: the collection's pins are left in the store.
DeleteManyNone(ids) == pins

\* idsToDelete, then Pin.deleteMany({ _id: { $in: idsToDelete } })
DeleteMany(ids) == Restrict(pins, DOMAIN pins \ ids)

removeCollection(userId, mapId, collectionTitle) ==
  /\ lastRet' = << >>
  /\ UNCHANGED <<users, nextUserId, nextMapId, nextPinId>>
  /\ IF mapId \notin DOMAIN maps
     THEN /\ lastOp' = Op("removeCollection", "LogicError")
          /\ UNCHANGED <<maps, pins>>
     ELSE IF ~AuthorEquals(maps[mapId], userId)
     THEN /\ lastOp' = Op("removeCollection", "LogicError")
          /\ UNCHANGED <<maps, pins>>
     ELSE LET cols == maps[mapId].collections
              colIndex == FindIndex(cols, collectionTitle)
          IN IF colIndex = -1
             THEN /\ lastOp' = Op("removeCollection", "LogicError")
                  /\ UNCHANGED <<maps, pins>>
             ELSE LET idsToDelete ==
                        {cols[colIndex + 1].pins[k] :
                           k \in 1..Len(cols[colIndex + 1].pins)}
                  IN /\ maps' = [maps EXCEPT ![mapId].collections =
                                   Splice(cols, colIndex)]
                     /\ pins' = DeleteMany(idsToDelete)
                     /\ lastOp' = Op("removeCollection", "ok")

\* -------------------------------------------------------- pin operations
\* Pin.create({ mapId, author: userId, ...newPin fields })
NewPin(userId, mapId, newPin) ==
  [mapId |-> mapId, author |-> userId, title |-> newPin.title,
   description |-> newPin.description, urlImage |-> newPin.urlImage,
   bestTimeOfYear |-> newPin.bestTimeOfYear, bestTimeOfDay |-> newPin.bestTimeOfDay,
   photographyTips |-> newPin.photographyTips,
   travelInformation |-> newPin.travelInformation,
   coordinates |-> [latitude |-> newPin.coordinates[1],
                    longitude |-> newPin.coordinates[2]]]

\* Faulty variant: the id is put at the front of the sequence.
PushPinFront(cols, colIndex, pinId) ==
  [cols EXCEPT ![colIndex + 1].pins = <<pinId>> \o @]

\* pmap.collections[colIndex].pins.push(pinCreated.id)
PushPin(cols, colIndex, pinId) ==
  [cols EXCEPT ![colIndex + 1].pins = Append(@, pinId)]

\* What the storage does to the two writes of createPin: both succeed, the
\* first (Pin.create) rejects, or the second (pmap.save) rejects.
Faults == {"none", "create", "save"}

\* Faulty variant: the created pin is deleted again when the save rejects.
PinCreateRolledBack(userId, mapId, newPin, fault) ==
  IF fault = "none" THEN (nextPinId :> NewPin(userId, mapId, newPin)) @@ pins ELSE pins

\* await Pin.create({...}): the pin store after the first write.
PinCreate(userId, mapId, newPin, fault) ==
  IF fault = "create" THEN pins ELSE (nextPinId :> NewPin(userId, mapId, newPin)) @@ pins

\* pmap.collections[colIndex].pins.push(pinCreated.id); await pmap.save():
\* the stored collections after the second write, which is reached only when
\* the first succeeded; the push on the in-memory document is lost when the
\* save rejects.
MapSave(cols, colIndex, fault) ==
  IF fault = "none" THEN PushPin(cols, colIndex, nextPinId) ELSE cols

\* logic.createPin under a given storage behaviour.
createPinStore(userId, mapId, collectionTitle, newPin, fault) ==
  /\ lastRet' = << >>
  /\ UNCHANGED <<users, nextUserId, nextMapId>>
  /\ IF mapId \notin DOMAIN maps
     THEN /\ lastOp' = Op("createPin", "LogicError")
          /\ UNCHANGED <<maps, pins, nextPinId>>
     ELSE IF ~AuthorEquals(maps[mapId], userId)
     THEN /\ lastOp' = Op("createPin", "LogicError")
          /\ UNCHANGED <<maps, pins, nextPinId>>
     ELSE LET cols == maps[mapId].collections
              colIndex == FindIndex(cols, collectionTitle)
          IN IF colIndex < 0
             THEN /\ lastOp' = Op("createPin", "LogicError")
                  /\ UNCHANGED <<maps, pins, nextPinId>>
             ELSE IF newPin.coordinates = << >>
             \* newPin.coordinates.latitude of undefined: TypeError caught in the try
             THEN /\ lastOp' = Op("createPin", "LogicError")
                  /\ UNCHANGED <<maps, pins, nextPinId>>
             ELSE /\ fault # "create" => nextPinId <= MaxPins /\ Docs < MaxDocs
                  /\ pins' = PinCreate(userId, mapId, newPin, fault)
                  /\ maps' = [maps EXCEPT ![mapId].collections =
                                MapSave(cols, colIndex, fault)]
                  /\ nextPinId' = IF fault = "create" THEN nextPinId ELSE nextPinId + 1
                  \* either rejection is caught and rethrown as LogicError
                  /\ lastOp' = Op("createPin", IF fault = "none" THEN "ok" ELSE "LogicError")

\* logic.createPin when the storage accepts every write.
createPin(userId, mapId, collectionTitle, newPin) ==
  /\ createPinStore(userId, mapId, collectionTitle, newPin, "none")

\* logic.createPin when the storage rejects one of its two writes.
createPinFault(userId, mapId, collectionTitle, newPin, fault) ==
  /\ fault # "none"
  /\ createPinStore(userId, mapId, collectionTitle, newPin, fault)

\* Faulty variant: a field the data omits keeps its stored value.
SetPinGiven(pin, data) ==
  [f \in DOMAIN pin |->
     IF f \in {"title", "description", "urlImage", "bestTimeOfYear", "bestTimeOfDay",
               "photographyTips", "travelInformation"} /\ data[f] # Undefined
     THEN data[f] ELSE pin[f]]

\* pin.title = data.title; ... pin.travelInformation = data.travelInformation
SetPin(pin, data) ==
  [pin EXCEPT !.title = data.title, !.description = data.description,
              !.urlImage = data.urlImage, !.bestTimeOfYear = data.bestTimeOfYear,
              !.bestTimeOfDay = data.bestTimeOfDay,
              !.photographyTips = data.photographyTips,
              !.travelInformation = data.travelInformation]

\* The outcome of the call in the current store.
UpdatePinOutcome(userId, pinId) ==
  IF pinId \notin DOMAIN pins THEN "LogicError"
  ELSE IF ~AuthorEquals(pins[pinId], userId) THEN "LogicError"
  ELSE "ok"

updatePin(userId, pinId, data) ==
  /\ lastRet' = << >>
  /\ UNCHANGED <<users, maps, nextUserId, nextMapId, nextPinId>>
  /\ lastOp' = Op("updatePin", UpdatePinOutcome(userId, pinId))
  /\ IF UpdatePinOutcome(userId, pinId) = "ok"
     THEN pins' = [pins EXCEPT ![pinId] = SetPin(@, data)]
     ELSE UNCHANGED pins

\* Faulty variant: the author filter is dropped.
FindOneById(userId, pinId) == {p \in DOMAIN pins : p = pinId}

\* Pin.findOneAndDelete({ _id: pinId, author: userId })
FindOne(userId, pinId) ==
  {p \in DOMAIN pins : p = pinId /\ pins[p].author = userId}

\* The outcome of the call in the current store: if (!deletedPin) throw
RemovePinOutcome(userId, pinId) ==
  IF FindOne(userId, pinId) = {} THEN "LogicError" ELSE "ok"

removePin(userId, pinId) ==
  /\ lastRet' = << >>
  /\ UNCHANGED <<users, maps, nextUserId, nextMapId, nextPinId>>
  /\ lastOp' = Op("removePin", RemovePinOutcome(userId, pinId))
  /\ pins' = Restrict(pins, DOMAIN pins \ FindOne(userId, pinId))

\* ------------------------------------------------------------------ Next
Next ==
  \/ \E e \in Emails : registerUser(e)
  \/ \E u \in UserIds, d \in UserData : updateUser(u, d)
  \/ \E u \in UserIds : removeUser(u)
  \/ \E u \in UserIds, m \in MapIds : retrieveUserMap(u, m)
  \/ \E u \in UserIds : createMap(u, "m1", "d1", "c1")
  \/ \E u \in UserIds, m \in MapIds, d \in MapData : updateMap(u, m, d)
  \/ \E u \in UserIds, m \in MapIds : removeMap(u, m)
  \/ \E u \in UserIds, m \in MapIds, t \in Titles : createCollection(u, m, t)
  \/ \E u \in UserIds, m \in MapIds, t \in Titles, n \in Titles :
       updateCollection(u, m, t, n)
  \/ \E u \in UserIds, m \in MapIds, t \in Titles : removeCollection(u, m, t)
  \/ \E u \in UserIds, m \in MapIds, t \in Titles, p \in NewPinData \cup {NoCoordinates} :
       createPin(u, m, t, p)
  \/ \E u \in UserIds, p \in PinIds, d \in PinData : updatePin(u, p, d)
  \/ \E u \in UserIds, p \in PinIds : removePin(u, p)

Spec == Init /\ [][Next]_vars

\* The operations that create and delete users, maps, collections and pins,
\* over a storage that may reject a write of createPin.
NextFaults ==
  \/ \E e \in Emails : registerUser(e)
  \/ \E u \in UserIds : removeUser(u)
  \/ \E u \in UserIds : createMap(u, "m1", "d1", "c1")
  \/ \E u \in UserIds, m \in MapIds : removeMap(u, m)
  \/ \E u \in UserIds, m \in MapIds, t \in Titles : createCollection(u, m, t)
  \/ \E u \in UserIds, m \in MapIds, t \in Titles : removeCollection(u, m, t)
  \/ \E u \in UserIds, m \in MapIds, t \in Titles, p \in NewPinData \cup {NoCoordinates} :
       createPin(u, m, t, p)
  \/ \E u \in UserIds, m \in MapIds, t \in Titles, p \in NewPinData, f \in Faults :
       createPinFault(u, m, t, p, f)
  \/ \E u \in UserIds, p \in PinIds : removePin(u, p)

SpecFaults == Init /\ [][NextFaults]_vars

\* ---------------------------------------------------------------- claims
Rejected == lastOp'.result = "LogicError"

HasTitle(cols, t) == \E k \in 1..Len(cols) : cols[k].title = t

\* The position of the first collection titled t.
First(cols, t) ==
  CHOOSE k \in 1..Len(cols) :
    cols[k].title = t /\ \A j \in 1..(k - 1) : cols[j].title # t

Without(cols, k) == SubSeq(cols, 1, k - 1) \o SubSeq(cols, k + 1, Len(cols))

Refs(col) == {col.pins[i] : i \in 1..Len(col.pins)}

\* C1: a user who is not the author of a stored map cannot change it:
\* updateMap, removeMap, createCollection, updateCollection, removeCollection
\* and createPin called by a non-author all fail with LogicError and leave
\* every map and the pin store as they were.
C1_NonOwnerRejected ==
  [][lastOp'.op \in {"updateMap", "removeMap", "createCollection",
                     "updateCollection", "removeCollection", "createPin"} =>
       \A u \in UserIds, m \in DOMAIN maps :
         maps[m].author # u =>
           /\ lastOp'.op = "updateMap" =>
                \A d \in MapData :
                  updateMap(u, m, d) => Rejected /\ maps' = maps /\ pins' = pins
           /\ lastOp'.op = "removeMap" =>
                (removeMap(u, m) => Rejected /\ maps' = maps /\ pins' = pins)
           /\ lastOp'.op = "createCollection" =>
                \A t \in Titles :
                  createCollection(u, m, t) =>
                    Rejected /\ maps' = maps /\ pins' = pins
           /\ lastOp'.op = "removeCollection" =>
                \A t \in Titles :
                  removeCollection(u, m, t) =>
                    Rejected /\ maps' = maps /\ pins' = pins
           /\ lastOp'.op = "updateCollection" =>
                \A t \in Titles, n \in Titles :
                  updateCollection(u, m, t, n) =>
                    Rejected /\ maps' = maps /\ pins' = pins
           /\ lastOp'.op = "createPin" =>
                \A t \in Titles, p \in NewPinData \cup {NoCoordinates} :
                  createPin(u, m, t, p) =>
                    Rejected /\ maps' = maps /\ pins' = pins]_vars

\* Every map id exists, one map holds a collection with a stored pin, and an
\* updateMap was refused: the caller was not the author.
C1_Witness ==
  /\ lastOp = Op("updateMap", "LogicError")
  /\ DOMAIN maps = MapIds
  /\ \E m \in DOMAIN maps :
       /\ maps[m].collections # << >>
       /\ maps[m].collections[1].pins # << >>
       /\ maps[m].collections[1].pins[1] \in DOMAIN pins

\* C2: when removeUser(U) succeeds, the store holds no map and no pin
\* authored by U and no user U, and the maps, pins and users of everyone
\* else are exactly as before.
C2_RemoveUserCascade ==
  [][lastOp' = Op("removeUser", "ok") =>
     \A u \in UserIds :
       removeUser(u) =>
         /\ u \notin DOMAIN users'
         /\ \A m \in DOMAIN maps' : maps'[m].author # u
         /\ \A p \in DOMAIN pins' : pins'[p].author # u
         /\ DOMAIN users' = DOMAIN users \ {u}
         /\ \A v \in DOMAIN users' : users'[v] = users[v]
         /\ DOMAIN maps' = {m \in DOMAIN maps : maps[m].author # u}
         /\ \A m \in DOMAIN maps' : maps'[m] = maps[m]
         /\ DOMAIN pins' = {p \in DOMAIN pins : pins[p].author # u}
         /\ \A p \in DOMAIN pins' : pins'[p] = pins[p]]_vars

\* removeUser succeeded; the seeded user's map is gone while another user's
\* map, with its pin, is still stored.
C2_Witness ==
  /\ lastOp = Op("removeUser", "ok")
  /\ DOMAIN maps = {2}
  /\ DOMAIN pins # {}
  /\ DOMAIN users = {}

\* C3: removeCollection by the map's author removes the (first) collection
\* titled T and deletes exactly the pins it referenced, so that updatePin on
\* any of them fails from then on; the other collections keep their order and
\* pin sequences and every other pin stays stored. With no collection titled
\* T the call fails with LogicError and changes nothing.
C3_RemoveCollectionCascade ==
  [][/\ \A p \in 1..(nextPinId - 1) : p \notin DOMAIN pins => p \notin DOMAIN pins'
     /\ lastOp'.op = "removeCollection" =>
          \A u \in UserIds, m \in DOMAIN maps, t \in Titles :
            maps[m].author = u /\ removeCollection(u, m, t) =>
              LET cols == maps[m].collections
              IN IF HasTitle(cols, t)
                 THEN /\ lastOp'.result = "ok"
                      /\ maps' = [maps EXCEPT ![m].collections =
                                    Without(cols, First(cols, t))]
                      /\ DOMAIN pins' = DOMAIN pins \ Refs(cols[First(cols, t)])
                      /\ \A p \in DOMAIN pins' : pins'[p] = pins[p]
                      /\ \A p \in Refs(cols[First(cols, t)]), v \in UserIds :
                           UpdatePinOutcome(v, p)' = "LogicError"
                 ELSE Rejected /\ maps' = maps /\ pins' = pins]_vars

\* removeCollection succeeded on a map that keeps another collection; the one
\* pin ever created is deleted and no collection references it any more.
C3_Witness ==
  /\ lastOp = Op("removeCollection", "ok")
  /\ nextPinId = 2
  /\ DOMAIN pins = {}
  /\ \E m \in DOMAIN maps : Len(maps[m].collections) = 1
  /\ \A m \in DOMAIN maps :
       \A k \in 1..Len(maps[m].collections) : maps[m].collections[k].pins = << >>

\* C4: removePin(U, pinId) succeeds exactly when a pin with that id authored
\* by U is stored, and then deletes that pin and no other; otherwise it fails
\* with LogicError and the pin store is unchanged. Directly after a success
\* the same call fails.
C4_RemovePinExact ==
  [][lastOp'.op = "removePin" =>
       \A u \in UserIds, p \in PinIds :
         removePin(u, p) =>
           IF p \in DOMAIN pins /\ pins[p].author = u
           THEN /\ lastOp'.result = "ok"
                /\ DOMAIN pins' = DOMAIN pins \ {p}
                /\ \A q \in DOMAIN pins' : pins'[q] = pins[q]
                /\ RemovePinOutcome(u, p)' = "LogicError"
           ELSE Rejected /\ pins' = pins]_vars

\* removePin failed on a pin that was removed before: its id was handed out,
\* it is not stored, and its collection still references it.
C4_Witness ==
  /\ lastOp = Op("removePin", "LogicError")
  /\ nextPinId > 1
  /\ 1 \notin DOMAIN pins
  /\ \E m \in DOMAIN maps :
       \E k \in 1..Len(maps[m].collections) : 1 \in Refs(maps[m].collections[k])

\* C5: createPin by the map's author, with coordinates given: when the map
\* has a collection titled T, a new pin is stored with author U, mapId M and
\* the given coordinates, its id is appended at the end of the (first)
\* collection titled T, and retrieveUserMap(U, M) then returns the pin as the
\* last pin of that collection; when the map has no collection titled T the
\* call fails with LogicError and stores no pin.
C5_CreatePin ==
  [][lastOp'.op = "createPin" =>
       \A u \in UserIds, m \in DOMAIN maps, t \in Titles, p \in NewPinData :
         maps[m].author = u /\ createPin(u, m, t, p) =>
           LET cols == maps[m].collections
               k == First(cols, t)
               id == nextPinId
           IN IF HasTitle(cols, t)
              THEN /\ lastOp'.result = "ok"
                   /\ id \notin DOMAIN pins
                   /\ DOMAIN pins' = DOMAIN pins \cup {id}
                   /\ \A q \in DOMAIN pins : pins'[q] = pins[q]
                   /\ pins'[id].author = u
                   /\ pins'[id].mapId = m
                   /\ pins'[id].coordinates =
                        [latitude |-> p.coordinates[1], longitude |-> p.coordinates[2]]
                   /\ maps' = [maps EXCEPT ![m].collections[k].pins =
                                 Append(cols[k].pins, id)]
                   /\ RetrieveUserMap(u, m)'.result = "ok"
                   /\ LET got == RetrieveUserMap(u, m)'.ret[1].collections[k]
                      IN /\ got.title = t
                         /\ got.pins # << >>
                         /\ got.pins[Len(got.pins)].id = id
                         /\ got.pins[Len(got.pins)].coordinates =
                              [latitude |-> p.coordinates[1],
                               longitude |-> p.coordinates[2]]
              ELSE Rejected /\ pins' = pins /\ maps' = maps]_vars

\* createPin succeeded on a collection that already held a stored pin: the new
\* id is the last of two references.
C5_Witness ==
  /\ lastOp = Op("createPin", "ok")
  /\ \E m \in DOMAIN maps :
       \E k \in 1..Len(maps[m].collections) :
         /\ maps[m].collections[k].pins = <<1, 2>>
         /\ DOMAIN pins = {1, 2}

\* C6: retrieveUserMap fails with LogicError exactly when the map does not
\* exist or it is private and the requester is not its author; otherwise it
\* returns that map; it never changes the store.
C6_RetrieveUserMap ==
  [][lastOp'.op = "retrieveUserMap" =>
       \A u \in UserIds, m \in MapIds :
         retrieveUserMap(u, m) =>
           /\ users' = users /\ maps' = maps /\ pins' = pins
           /\ Rejected <=>
                (m \notin DOMAIN maps \/ (~maps[m].isPublic /\ maps[m].author # u))
           /\ ~Rejected =>
                /\ lastOp'.result = "ok"
                /\ Len(lastRet') = 1
                /\ lastRet'[1].id = m
                /\ lastRet'[1].author = maps[m].author]_vars

\* Every map id exists and a retrieveUserMap was refused: the map is private
\* and the requester is not its author.
C6_Witness ==
  /\ lastOp = Op("retrieveUserMap", "LogicError")
  /\ DOMAIN maps = MapIds
  /\ \E m \in DOMAIN maps : maps[m].isPublic

\* C7: the titles of the collections embedded in one map are pairwise
\* distinct in every reachable state.
C7_DistinctTitles ==
  \A m \in DOMAIN maps :
    \A i, j \in 1..Len(maps[m].collections) :
      i # j => maps[m].collections[i].title # maps[m].collections[j].title

UniqueEmails ==
  \A a, b \in DOMAIN users : a # b => users[a].email # users[b].email

RefsTo(p) ==
  UNION {UNION {{<<m, k, i>> : i \in {x \in 1..Len(maps[m].collections[k].pins) :
                                        maps[m].collections[k].pins[x] = p}} :
                  k \in 1..Len(maps[m].collections)} :
           m \in DOMAIN maps}

\* C9: every stored pin is referenced from exactly one collection's pin
\* sequence, once, and that collection belongs to the map the pin's mapId
\* names.
C9_PinReferencedOnce ==
  \A p \in DOMAIN pins :
    /\ Cardinality(RefsTo(p)) = 1
    /\ \A r \in RefsTo(p) : r[1] = pins[p].mapId

\* A stored pin shares its collection with the dangling reference of a pin
\* that removePin deleted.
C9_Witness ==
  /\ lastOp = Op("removePin", "ok")
  /\ DOMAIN pins = {2}
  /\ RefsTo(1) # {}
  /\ RefsTo(2) # {}

\* C10 as stated, taken on maps whose collection titles are pairwise
\* distinct: for the map's author, updateCollection fails with LogicError and
\* leaves the map unchanged if no collection is titled oldTitle or if another
\* collection titled newTitle stands at an index greater than zero; in every
\* other case it renames the first collection titled oldTitle in place.
C10_AsStated ==
  [][lastOp'.op = "updateCollection" =>
       \A u \in UserIds, m \in DOMAIN maps, old \in Titles, new \in Titles :
         ( /\ maps[m].author = u
           /\ \A i, j \in 1..Len(maps[m].collections) :
                i # j => maps[m].collections[i].title # maps[m].collections[j].title
           /\ updateCollection(u, m, old, new) ) =>
           LET cols == maps[m].collections
           IN IF \/ ~HasTitle(cols, old)
                 \/ \E j \in 2..Len(cols) :
                      cols[j].title = new /\ j # First(cols, old)
              THEN Rejected /\ maps' = maps /\ pins' = pins
              ELSE /\ lastOp'.result = "ok"
                   /\ maps' = [maps EXCEPT
                                 ![m].collections[First(cols, old)].title = new]
                   /\ pins' = pins]_vars

\* C10 amended: for the map's author, updateCollection fails with LogicError
\* and leaves the map unchanged if no collection is titled oldTitle or if the
\* first collection titled newTitle (the renamed one included) stands at an
\* index greater than zero; in every other case it renames the first
\* collection titled oldTitle in place, order, other titles and pin sequences
\* unchanged.
C10_FirstMatchRule ==
  [][lastOp'.op = "updateCollection" =>
       \A u \in UserIds, m \in DOMAIN maps, old \in Titles, new \in Titles :
         maps[m].author = u /\ updateCollection(u, m, old, new) =>
           LET cols == maps[m].collections
           IN IF \/ ~HasTitle(cols, old)
                 \/ HasTitle(cols, new) /\ First(cols, new) > 1
              THEN Rejected /\ maps' = maps /\ pins' = pins
              ELSE /\ lastOp'.result = "ok"
                   /\ maps' = [maps EXCEPT
                                 ![m].collections[First(cols, old)].title = new]
                   /\ pins' = pins]_vars

\* updateCollection succeeded and left two collections with the same title:
\* the collision with the collection at index 0 went undetected.
C10_Witness ==
  /\ lastOp = Op("updateCollection", "ok")
  /\ \E m \in DOMAIN maps :
       /\ Len(maps[m].collections) = 2
       /\ maps[m].collections[1].title = maps[m].collections[2].title

\* The coordinates an argument object gives, as a pin stores them; neither
\* latitude nor longitude when the object omits them.
GivenCoordinates(d) ==
  IF d.coordinates = << >>
  THEN [latitude |-> Undefined, longitude |-> Undefined]
  ELSE [latitude |-> d.coordinates[1], longitude |-> d.coordinates[2]]

\* C11 as stated: when updatePin succeeds for the pin's author, the pin's
\* title, description, image URL, best time of year, best time of day,
\* photography tips, travel information and coordinates hold the values the
\* data gives (undefined where it omits one), the pin's author and mapId,
\* every other pin and every map are unchanged.
C11_AsStated ==
  [][lastOp' = Op("updatePin", "ok") =>
       \A u \in UserIds, p \in DOMAIN pins, d \in PinData :
         pins[p].author = u /\ updatePin(u, p, d) =>
           /\ pins' = [pins EXCEPT ![p] =
                         [@ EXCEPT !.title = d.title,
                                   !.description = d.description,
                                   !.urlImage = d.urlImage,
                                   !.bestTimeOfYear = d.bestTimeOfYear,
                                   !.bestTimeOfDay = d.bestTimeOfDay,
                                   !.photographyTips = d.photographyTips,
                                   !.travelInformation = d.travelInformation,
                                   !.coordinates = GivenCoordinates(d)]]
           /\ maps' = maps]_vars

\* C11 amended: when updatePin succeeds for the pin's author, the pin's
\* title, description, image URL, best time of year, best time of day,
\* photography tips and travel information hold the values the data gives
\* (undefined where it omits one), while the pin's coordinates, author and
\* mapId, every other pin and every map are unchanged.
C11_UpdatePinKeepsCoordinates ==
  [][lastOp' = Op("updatePin", "ok") =>
       \A u \in UserIds, p \in DOMAIN pins, d \in PinData :
         pins[p].author = u /\ updatePin(u, p, d) =>
           /\ DOMAIN pins' = DOMAIN pins
           /\ \A q \in DOMAIN pins \ {p} : pins'[q] = pins[q]
           /\ pins'[p].title = d.title
           /\ pins'[p].description = d.description
           /\ pins'[p].urlImage = d.urlImage
           /\ pins'[p].bestTimeOfYear = d.bestTimeOfYear
           /\ pins'[p].bestTimeOfDay = d.bestTimeOfDay
           /\ pins'[p].photographyTips = d.photographyTips
           /\ pins'[p].travelInformation = d.travelInformation
           /\ pins'[p].coordinates = pins[p].coordinates
           /\ pins'[p].author = pins[p].author
           /\ pins'[p].mapId = pins[p].mapId
           /\ maps' = maps]_vars

\* updatePin succeeded on a pin created at <<"41", "2">>: the pin carries the
\* new title, no description, and still the coordinates it was created with.
C11_Witness ==
  /\ lastOp = Op("updatePin", "ok")
  /\ \E p \in DOMAIN pins :
       /\ pins[p].title = "p2"
       /\ pins[p].description = Undefined
       /\ pins[p].coordinates = [latitude |-> "41", longitude |-> "2"]

\* C12: for the map's author and an existing collection, createPin writes
\* the pin document first and the map with the pin id appended second. When
\* the first write is rejected it fails with LogicError and pins and maps are
\* unchanged; when the second is rejected it fails with LogicError, the maps
\* are unchanged and the pins gain exactly one pin, authored by the caller for
\* that map, which no collection references; when both are accepted the new
\* pin's id ends the collection's pin sequence.
C12_CreatePinWrites ==
  [][lastOp'.op = "createPin" =>
       \A u \in UserIds, m \in DOMAIN maps, t \in Titles, p \in NewPinData, f \in Faults :
         ( /\ maps[m].author = u
           /\ HasTitle(maps[m].collections, t)
           /\ createPinStore(u, m, t, p, f) ) =>
           LET created == DOMAIN pins' \ DOMAIN pins
               k == First(maps[m].collections, t)
           IN /\ \A q \in DOMAIN pins : q \in DOMAIN pins' /\ pins'[q] = pins[q]
              /\ f = "create" => Rejected /\ created = {} /\ maps' = maps
              /\ f = "save" =>
                   /\ Rejected
                   /\ maps' = maps
                   /\ Cardinality(created) = 1
                   /\ \A id \in created :
                        /\ pins'[id].author = u
                        /\ pins'[id].mapId = m
                        /\ RefsTo(id)' = {}
              /\ f = "none" =>
                   /\ lastOp'.result = "ok"
                   /\ Cardinality(created) = 1
                   /\ \A id \in created :
                        /\ RefsTo(id)' = {<<m, k, Len(maps[m].collections[k].pins) + 1>>}
                        /\ maps' = [maps EXCEPT ![m].collections[k].pins =
                                      Append(@, id)]]_vars

\* createPin failed on its second write: the pin it created last is stored
\* and no collection of any map references it.
C12_Witness ==
  /\ lastOp = Op("createPin", "LogicError")
  /\ nextPinId > 1
  /\ (nextPinId - 1) \in DOMAIN pins
  /\ RefsTo(nextPinId - 1) = {}
  /\ \E m \in DOMAIN maps : Len(maps[m].collections) > 0
====
